---- MODULE Spec2Model ----
(***************************************************************************)
(* TVL chart aggregation of packages/frontend2:                            *)
(*   server/features/scaling/tvl/utils/get-tvl-chart-data.ts               *)
(* getChartData merges the per-project, per-timestamp value records into   *)
(* one chart point per timestamp; getCachedTvlChartData derives the total  *)
(* from the last point of the trailing 7-day chart and returns the chart   *)
(* of the requested range.                                                 *)
(***************************************************************************)
EXTENDS Integers, Sequences, FiniteSets, TLC

\* Upstream changes (inserted value records plus price-feed faults) explored.
MaxUpstreamChanges == 3

\* total.usd = total / 100 (get-tvl-chart-data.ts:74)
UsdDivisor == 100
\* chart point's fifth component is ethPrice * 100 (get-tvl-chart-data.ts:110)
EthPriceScale == 100

\* Two members of TvlChartRange; '7d' is the one the code singles out.
Ranges == {"7d", "30d"}
\* The filtered tvlProjects, in the key order of the values dictionary.
Projects == {1, 2}
\* Bucket timestamps (array-index keys of a JS object: below 2^32 - 1).
Timestamps == {100, 200, 300}
\* What getEthPrices yields for a timestamp when the feed is healthy.
FeedPrice == (100 :> 2000) @@ (200 :> 2500) @@ (300 :> 4000)
\* ValueRecords as the summation collaborator sees them.
Sources == {"native", "canonical", "external"}
RecordKinds ==
    { [source |-> "native",    value |-> 500, associated |-> FALSE],
      [source |-> "canonical", value |-> 300, associated |-> TRUE] }

VARIABLES
    db,          \* range -> project position -> (timestamp -> ValueRecord[])
    ethPrices,   \* Record<number, number>: partial map timestamp -> price
    session,     \* excludeAssociatedTokens of the responses recorded
    responses    \* range -> <<>> or <<response>> since upstream last changed

vars == <<db, ethPrices, session, responses>>

----------------------------------------------------------------------------
\* Generic helpers

Range(s) == { s[i] : i \in DOMAIN s }

RECURSIVE SortedSeq(_)
SortedSeq(S) ==
    IF S = {} THEN <<>>
    ELSE LET m == CHOOSE x \in S : \A y \in S : x <= y
         IN  <<m>> \o SortedSeq(S \ {m})

RECURSIVE GCD(_, _)
GCD(a, b) == IF b = 0 THEN a ELSE GCD(b, a % b)

\* n / d in floating point: a reduced fraction, or Infinity (1/0), NaN (0/0).
Divide(n, d) ==
    IF d = 0 THEN (IF n = 0 THEN <<0, 0>> ELSE <<1, 0>>)
    ELSE LET g == GCD(n, d) IN <<n \div g, d \div g>>

----------------------------------------------------------------------------
\* JS objects with integer-like keys

\* A JS object under construction: its keys in insertion order and its values.
EmptyObject == [order |-> <<>>, at |-> <<>>]

\* obj[k] ?? []
GetOrEmpty(obj, k) == IF k \in DOMAIN obj.at THEN obj.at[k] ELSE <<>>

\* obj[k] = v
SetKey(obj, k, v) ==
    [order |-> IF k \in DOMAIN obj.at THEN obj.order ELSE Append(obj.order, k),
     at    |-> [x \in (DOMAIN obj.at) \cup {k} |->
                   IF x = k THEN v ELSE obj.at[x]]]

\* A wrong key order: plain insertion order.
InsertionOrderKeys(order) == order

\* [[OwnPropertyKeys]]: keys that are array indices come first, in ascending
\* numeric order, whatever the insertion order was.  Every timestamp is one.
OwnPropertyKeys(order) == SortedSeq(Range(order))

\* Object.entries(projectValues) of one project's dictionary.
ProjectEntries(projectValues) ==
    OwnPropertyKeys(SortedSeq(DOMAIN projectValues))

----------------------------------------------------------------------------
\* sumValuesPerSource (./sum-values-per-source): the per-source sums of a
\* record sequence; with excludeAssociatedTokens the associated-token
\* records are left out.

RECURSIVE SumSource(_, _, _)
SumSource(values, source, excludeAssociatedTokens) ==
    IF values = <<>> THEN 0
    ELSE LET v == Head(values)
             counted == v.source = source
                        /\ ~(excludeAssociatedTokens /\ v.associated)
         IN  (IF counted THEN v.value ELSE 0)
             + SumSource(Tail(values), source, excludeAssociatedTokens)

sumValuesPerSource(values, forTotal, excludeAssociatedTokens) ==
    [native    |-> SumSource(values, "native", excludeAssociatedTokens),
     canonical |-> SumSource(values, "canonical", excludeAssociatedTokens),
     external  |-> SumSource(values, "external", excludeAssociatedTokens)]

\* Number(bigint): exact for magnitudes below 2^53, which all sums here are.
Number(b) == b

----------------------------------------------------------------------------
\* getChartData

\* Wrong buckets: the later project's records replace the earlier ones.
OverwriteBucket(existing, values) == values

\* Wrong buckets: the first project to hold a timestamp keeps it.
KeepFirstBucket(existing, values) ==
    IF existing = <<>> THEN values ELSE existing

\* map.concat(values)
ConcatBucket(existing, values) == existing \o values

\* The inner loop: for (const [timestamp, values] of Object.entries(projectValues))
RECURSIVE MergeProject(_, _, _)
MergeProject(timestampValues, projectValues, keys) ==
    IF keys = <<>> THEN timestampValues
    ELSE LET timestamp == Head(keys)
             map == GetOrEmpty(timestampValues, timestamp)
         IN  MergeProject(
                 SetKey(timestampValues, timestamp,
                        ConcatBucket(map, projectValues[timestamp])),
                 projectValues, Tail(keys))

\* Wrong merge: only the first project is visited.
MergeFirstProjectOnly(timestampValues, values) ==
    IF values = <<>> THEN timestampValues
    ELSE MergeProject(timestampValues, Head(values),
                      ProjectEntries(Head(values)))

\* The outer loop: for (const projectValues of Object.values(values))
RECURSIVE MergeValues(_, _)
MergeValues(timestampValues, values) ==
    IF values = <<>> THEN timestampValues
    ELSE MergeValues(
             MergeProject(timestampValues, Head(values),
                          ProjectEntries(Head(values))),
             Tail(values))

\* Wrong assertion: tests presence of the price, not its truthiness.
PricePresent(prices, timestamp) == timestamp \in DOMAIN prices

\* assert(ethPrice, ...) passes: the price is there and is not 0.
PriceTruthy(prices, timestamp) ==
    timestamp \in DOMAIN prices /\ prices[timestamp] # 0

\* ethPrices[+timestamp], read only after the presence test in the model.
PriceAt(prices, timestamp) ==
    IF timestamp \in DOMAIN prices THEN prices[timestamp] ELSE 0

\* Wrong point: the price is not multiplied by 100.
ChartPointRawPrice(timestamp, summed, ethPrice) ==
    <<timestamp, Number(summed.native), Number(summed.canonical),
      Number(summed.external), ethPrice>>

\* [+timestamp, native, canonical, external, ethPrice * 100]
ChartPoint(timestamp, summed, ethPrice) ==
    <<timestamp, Number(summed.native), Number(summed.canonical),
      Number(summed.external), ethPrice * EthPriceScale>>

Return(chart) == [threw |-> FALSE, message |-> <<>>, chart |-> chart]
Throw(message) == [threw |-> TRUE, message |-> message, chart |-> <<>>]

PointFor(timestampValues, prices, excludeAssociatedTokens, timestamp) ==
    ChartPoint(timestamp,
               sumValuesPerSource(timestampValues.at[timestamp], TRUE,
                                  excludeAssociatedTokens),
               PriceAt(prices, timestamp))

\* Wrong map: timestamps whose price assertion fails are skipped.
getChartDataSkipping(values, prices, excludeAssociatedTokens) ==
    LET timestampValues == MergeValues(EmptyObject, values)
        keys == OwnPropertyKeys(timestampValues.order)
        kept == SelectSeq(keys, LAMBDA k : PriceTruthy(prices, k))
    IN  Return([i \in 1..Len(kept) |->
                   PointFor(timestampValues, prices,
                            excludeAssociatedTokens, kept[i])])

getChartData(values, prices, excludeAssociatedTokens) ==
    LET timestampValues == MergeValues(EmptyObject, values)
        keys == OwnPropertyKeys(timestampValues.order)
        failing == { i \in 1..Len(keys) : ~PriceTruthy(prices, keys[i]) }
    IN  IF failing # {}
        THEN LET first == CHOOSE i \in failing : \A j \in failing : i <= j
             IN  Throw(<<"No ETH price for ", keys[first]>>)
        ELSE Return([i \in 1..Len(keys) |->
                        PointFor(timestampValues, prices,
                                 excludeAssociatedTokens, keys[i])])

----------------------------------------------------------------------------
\* getCachedTvlChartData

\* Wrong reference window: the requested range's values serve for the total.
RequestedRangeValues(upstream, range, values) == values

\* range === '7d' ? values : await getTvlValuesForProjects(tvlProjects, '7d')
LastWeekValues(upstream, range, values) ==
    IF range = "7d" THEN values ELSE upstream["7d"]

\* Wrong element: the first chart point.
AtFirst(chart) == IF chart = <<>> THEN <<>> ELSE <<chart[1]>>

\* lastWeekChart.at(-1): <<>> stands for undefined.
AtLast(chart) == IF chart = <<>> THEN <<>> ELSE <<chart[Len(chart)]>>

Respond(total, chart) ==
    [threw |-> FALSE, message |-> <<>>, total |-> total, chart |-> chart]
Reject(message) ==
    [threw |-> TRUE, message |-> message,
     total |-> [usd |-> <<>>, eth |-> <<>>], chart |-> <<>>]

\* The total of the object returned, from latestValue.
TotalOf(latestValue) ==
    LET total == latestValue[2] + latestValue[3] + latestValue[4]
        ethPrice == latestValue[5]
    IN  [usd |-> Divide(total, UsdDivisor), eth |-> Divide(total, ethPrice)]

\* Wrong fallback: with no latest value a zero total is returned.
getCachedTvlChartDataZeroTotal(upstream, prices, range, excludeAssociatedTokens) ==
    LET values == upstream[range]
        lastWeekValues == LastWeekValues(upstream, range, values)
        lastWeekChart == getChartData(lastWeekValues, prices,
                                      excludeAssociatedTokens)
        latestValue == AtLast(lastWeekChart.chart)
        chart == getChartData(values, prices, excludeAssociatedTokens)
    IN  IF lastWeekChart.threw THEN Reject(lastWeekChart.message)
        ELSE IF chart.threw THEN Reject(chart.message)
        ELSE IF latestValue = <<>>
             THEN Respond([usd |-> <<0, 1>>, eth |-> <<0, 1>>], chart.chart)
        ELSE Respond(TotalOf(latestValue[1]), chart.chart)

getCachedTvlChartData(upstream, prices, range, excludeAssociatedTokens) ==
    LET values == upstream[range]
        lastWeekValues == LastWeekValues(upstream, range, values)
        lastWeekChart == getChartData(lastWeekValues, prices,
                                      excludeAssociatedTokens)
        latestValue == AtLast(lastWeekChart.chart)
        chart == getChartData(values, prices, excludeAssociatedTokens)
    IN  IF lastWeekChart.threw THEN Reject(lastWeekChart.message)
        ELSE IF latestValue = <<>> THEN Reject(<<"No latest value">>)
        ELSE IF chart.threw THEN Reject(chart.message)
        ELSE Respond(TotalOf(latestValue[1]), chart.chart)

----------------------------------------------------------------------------
\* The upstream collaborators and the requests

RECURSIVE CountRecords(_, _)
CountRecords(projectValues, keys) ==
    IF keys = {} THEN 0
    ELSE LET k == CHOOSE x \in keys : TRUE
         IN  Len(projectValues[k]) + CountRecords(projectValues, keys \ {k})

\* Value records stored upstream, over all ranges and projects.
StoredRecords ==
    LET cells == { <<r, p>> : r \in Ranges, p \in Projects }
        Count[S \in SUBSET cells] ==
            IF S = {} THEN 0
            ELSE LET c == CHOOSE x \in S : TRUE
                 IN  CountRecords(db[c[1]][c[2]], DOMAIN db[c[1]][c[2]])
                     + Count[S \ {c}]
    IN  Count[cells]

\* The feed holds its healthy price for the timestamp.
Healthy(timestamp) ==
    timestamp \in DOMAIN ethPrices /\ ethPrices[timestamp] = FeedPrice[timestamp]

\* Timestamps whose price the feed has lost or reports as 0.
PriceFaults == Cardinality({ t \in Timestamps : ~Healthy(t) })

UpstreamChanges == StoredRecords + PriceFaults

NoResponses == [r \in Ranges |-> <<>>]

Init ==
    /\ db = [r \in Ranges |-> [p \in Projects |-> <<>>]]
    /\ ethPrices = FeedPrice
    /\ session = FALSE
    /\ responses = NoResponses

\* getTvlValuesForProjects comes to hold one more record for a project.
InsertRecord(range, project, timestamp, record) ==
    /\ UpstreamChanges < MaxUpstreamChanges
    /\ LET projectValues == db[range][project]
           old == IF timestamp \in DOMAIN projectValues
                  THEN projectValues[timestamp] ELSE <<>>
           new == [t \in (DOMAIN projectValues) \cup {timestamp} |->
                      IF t = timestamp THEN Append(old, record)
                      ELSE projectValues[t]]
       IN  db' = [db EXCEPT ![range][project] = new]
    /\ responses' = NoResponses
    /\ session' = FALSE
    /\ UNCHANGED ethPrices

\* getEthPrices comes to lack the price of a timestamp.
DropPrice(timestamp) ==
    /\ UpstreamChanges < MaxUpstreamChanges
    /\ Healthy(timestamp)
    /\ ethPrices' = [t \in (DOMAIN ethPrices) \ {timestamp} |-> ethPrices[t]]
    /\ responses' = NoResponses
    /\ session' = FALSE
    /\ UNCHANGED db

\* getEthPrices comes to report 0 for a timestamp.
ZeroPrice(timestamp) ==
    /\ UpstreamChanges < MaxUpstreamChanges
    /\ Healthy(timestamp)
    /\ ethPrices' = [ethPrices EXCEPT ![timestamp] = 0]
    /\ responses' = NoResponses
    /\ session' = FALSE
    /\ UNCHANGED db

\* One call getCachedTvlChartData({ range, excludeAssociatedTokens, filter }).
Request(range, excludeAssociatedTokens) ==
    LET response == getCachedTvlChartData(db, ethPrices, range,
                                          excludeAssociatedTokens)
        kept == IF excludeAssociatedTokens = session
                THEN responses ELSE NoResponses
    IN  /\ responses' = [kept EXCEPT ![range] = <<response>>]
        /\ session' = excludeAssociatedTokens
        /\ UNCHANGED <<db, ethPrices>>

Next ==
    \/ \E r \in Ranges, p \in Projects, t \in Timestamps, v \in RecordKinds :
           InsertRecord(r, p, t, v)
    \/ \E t \in Timestamps : DropPrice(t)
    \/ \E t \in Timestamps : ZeroPrice(t)
    \/ \E r \in Ranges, e \in BOOLEAN : Request(r, e)

Spec == Init /\ [][Next]_vars

----------------------------------------------------------------------------
\* Vocabulary of the properties

Answered(r) == responses[r] # <<>>
Response(r) == responses[r][1]
Succeeded(r) == Answered(r) /\ ~Response(r).threw

\* The distinct timestamps of a Project-Value Map.
TimestampsOf(values) == UNION { DOMAIN values[p] : p \in DOMAIN values }

RecordsAt(values, p, t) ==
    IF t \in DOMAIN values[p] THEN values[p][t] ELSE <<>>

Occurrences(records, k) ==
    Cardinality({ i \in DOMAIN records : records[i] = k })

RECURSIVE OccurrencesInProjects(_, _, _, _)
OccurrencesInProjects(values, ps, t, k) ==
    IF ps = {} THEN 0
    ELSE LET p == CHOOSE x \in ps : TRUE
         IN  Occurrences(RecordsAt(values, p, t), k)
             + OccurrencesInProjects(values, ps \ {p}, t, k)

\* The sum, over every project, of the counted values of one source at t.
RECURSIVE SumInProjects(_, _, _, _, _)
SumInProjects(values, ps, t, source, exclude) ==
    IF ps = {} THEN 0
    ELSE LET p == CHOOSE x \in ps : TRUE
             recs == RecordsAt(values, p, t)
             mine == { i \in DOMAIN recs :
                         /\ recs[i].source = source
                         /\ ~(exclude /\ recs[i].associated) }
             Add[S \in SUBSET mine] ==
                 IF S = {} THEN 0
                 ELSE LET i == CHOOSE x \in S : TRUE
                      IN  recs[i].value + Add[S \ {i}]
         IN  Add[mine] + SumInProjects(values, ps \ {p}, t, source, exclude)

MissingPrice(values) ==
    \E t \in TimestampsOf(values) : t \notin DOMAIN ethPrices

ZeroPriced(values) ==
    \E t \in TimestampsOf(values) : t \in DOMAIN ethPrices /\ ethPrices[t] = 0

\* The price map has a positive price for every timestamp of the values.
PricesCover(values) ==
    \A t \in TimestampsOf(values) : t \in DOMAIN ethPrices /\ ethPrices[t] > 0

IsPriceError(message) == message # <<>> /\ message[1] = "No ETH price for "

Ascending(chart) ==
    \A i, j \in DOMAIN chart : i < j => chart[i][1] < chart[j][1]

PointSet(chart) == { chart[i] : i \in DOMAIN chart }

Reordered(values, perm) == [i \in DOMAIN values |-> values[perm[i]]]

----------------------------------------------------------------------------
\* C1: when a timestamp of the values has no entry in the price map,
\* getChartData throws the missing-price error and yields no chart point, not
\* even for the timestamps that have a price; a call whose 7-day or
\* requested-range values have such a timestamp returns no total and no chart.
C1_MissingPriceAborts ==
    \A r \in Ranges :
        /\ \A e \in BOOLEAN :
               MissingPrice(db[r]) =>
                   LET c == getChartData(db[r], ethPrices, e)
                   IN  c.threw /\ IsPriceError(c.message) /\ c.chart = <<>>
        /\ (Answered(r) /\ (MissingPrice(db[r]) \/ MissingPrice(db["7d"]))) =>
               /\ Response(r).threw
               /\ Response(r).chart = <<>>
               /\ MissingPrice(db["7d"]) => IsPriceError(Response(r).message)

C1_Witness ==
    \E r \in Ranges :
        /\ Answered(r)
        /\ MissingPrice(db[r])
        /\ \E t \in TimestampsOf(db[r]) : PriceTruthy(ethPrices, t)
        /\ Response(r).threw
        /\ IsPriceError(Response(r).message)

\* C2: whenever the chart computed from the 7-day values is empty, the call
\* throws 'No latest value' and returns nothing, for every requested range,
\* also when the requested range's values are not empty.
C2_NoLatestValue ==
    \A r \in Ranges :
        LET lastWeekChart == getChartData(db["7d"], ethPrices, session)
        IN  (Answered(r) /\ ~lastWeekChart.threw /\ lastWeekChart.chart = <<>>)
                => /\ Response(r).threw
                   /\ Response(r).message = <<"No latest value">>

C2_Witness ==
    /\ Answered("30d")
    /\ TimestampsOf(db["30d"]) # {}
    /\ PricesCover(db["30d"])
    /\ TimestampsOf(db["7d"]) = {}
    /\ Response("30d").message = <<"No latest value">>

\* C3: the chart of getChartData is in strictly ascending timestamp order,
\* also when the projects hold different sets of timestamps.
C3_ChartAscending ==
    \A r \in Ranges :
        /\ \A e \in BOOLEAN : Ascending(getChartData(db[r], ethPrices, e).chart)
        /\ Answered(r) => Ascending(Response(r).chart)

C3_Witness ==
    /\ Succeeded("7d")
    /\ DOMAIN db["7d"][1] = {100, 300}
    /\ DOMAIN db["7d"][2] = {200}
    /\ Len(Response("7d").chart) = 3

\* C4: with N distinct timestamps over all projects and a price map covering
\* them, getChartData returns exactly N points, one per distinct timestamp;
\* for no values at all it returns the empty sequence.
C4_OnePointPerTimestamp ==
    /\ \A e \in BOOLEAN : getChartData(<<>>, ethPrices, e) = Return(<<>>)
    /\ \A r \in Ranges :
        /\ \A e \in BOOLEAN :
               PricesCover(db[r]) =>
                   LET c == getChartData(db[r], ethPrices, e)
                   IN  /\ ~c.threw
                       /\ Len(c.chart) = Cardinality(TimestampsOf(db[r]))
                       /\ { c.chart[i][1] : i \in DOMAIN c.chart }
                              = TimestampsOf(db[r])
        /\ Succeeded(r) =>
               /\ Len(Response(r).chart) = Cardinality(TimestampsOf(db[r]))
               /\ { Response(r).chart[i][1] : i \in DOMAIN Response(r).chart }
                      = TimestampsOf(db[r])

C4_Witness ==
    \E r \in Ranges :
        /\ Succeeded(r)
        /\ \E t \in DOMAIN db[r][1] : t \in DOMAIN db[r][2]
        /\ \E t \in DOMAIN db[r][2] : t \notin DOMAIN db[r][1]
        /\ Len(Response(r).chart) = 2

\* C5: the merge drops no record: the records summed for a timestamp are the
\* multiset union of the records every project holds there, so each point's
\* native, canonical and external value is the sum over all projects.
C5_MergeKeepsEveryRecord ==
    \A r \in Ranges :
        LET timestampValues == MergeValues(EmptyObject, db[r])
        IN  /\ DOMAIN timestampValues.at = TimestampsOf(db[r])
            /\ \A t \in TimestampsOf(db[r]), k \in RecordKinds :
                   Occurrences(timestampValues.at[t], k)
                       = OccurrencesInProjects(db[r], Projects, t, k)
            /\ Succeeded(r) =>
                   \A i \in DOMAIN Response(r).chart :
                       LET pt == Response(r).chart[i]
                       IN  /\ pt[2] = SumInProjects(db[r], Projects, pt[1],
                                                    "native", session)
                           /\ pt[3] = SumInProjects(db[r], Projects, pt[1],
                                                    "canonical", session)
                           /\ pt[4] = SumInProjects(db[r], Projects, pt[1],
                                                    "external", session)

C5_Witness ==
    \E r \in Ranges, t \in Timestamps :
        /\ Succeeded(r)
        /\ ~session
        /\ RecordsAt(db[r], 1, t) # <<>>
        /\ RecordsAt(db[r], 2, t) # <<>>
        /\ \E i \in DOMAIN Response(r).chart :
               Response(r).chart[i][1] = t
               /\ Response(r).chart[i][2] + Response(r).chart[i][3] >= 800

\* C6: reordering the projects of the values changes no chart point.
C6_ProjectOrderIrrelevant ==
    \A r \in Ranges, perm \in Permutations(Projects) :
        /\ \A e \in BOOLEAN :
               LET a == getChartData(db[r], ethPrices, e)
                   b == getChartData(Reordered(db[r], perm), ethPrices, e)
               IN  a.threw = b.threw /\ PointSet(a.chart) = PointSet(b.chart)
        /\ Succeeded(r) =>
               PointSet(Response(r).chart) =
                   PointSet(getChartData(Reordered(db[r], perm), ethPrices,
                                         session).chart)

C6_Witness ==
    \E r \in Ranges, t \in Timestamps :
        /\ Succeeded(r)
        /\ RecordsAt(db[r], 1, t) # <<>>
        /\ RecordsAt(db[r], 2, t) # <<>>
        /\ RecordsAt(db[r], 1, t) # RecordsAt(db[r], 2, t)

\* The worked example: {P1: {100: [native record of value 500]}}, price 2000.
ExampleValues ==
    [p \in Projects |->
        IF p = 1
        THEN (100 :> <<[source |-> "native", value |-> 500,
                        associated |-> FALSE]>>)
        ELSE <<>>]

ExampleHolds(r) ==
    /\ db[r] = ExampleValues
    /\ 100 \in DOMAIN ethPrices
    /\ ethPrices[100] = 2000

\* C7 (as amended): the point is (timestamp, native, canonical, external,
\* price * 100) with the per-source sums converted to numbers unchanged, not
\* scaled down: the example's chart is [(100, 500, 0, 0, 200000)].
C7_ExampleChartUnscaled ==
    \A r \in Ranges :
        ExampleHolds(r) =>
            /\ getChartData(db[r], ethPrices, FALSE)
                   = Return(<< <<100, 500, 0, 0, 200000>> >>)
            /\ (Succeeded(r) /\ ~session) =>
                   Response(r).chart = << <<100, 500, 0, 0, 200000>> >>

C7_Witness ==
    /\ ExampleHolds("7d")
    /\ Succeeded("7d")
    /\ ~session
    /\ Response("7d").total.usd = <<5, 1>>

\* C7 (as claimed): the example's chart is [(100, 5, 0, 0, 200000)].
C7_ExampleChartScaled ==
    \A r \in Ranges :
        (ExampleHolds(r) /\ Succeeded(r) /\ ~session) =>
            Response(r).chart = << <<100, 5, 0, 0, 200000>> >>

\* C8: the total comes from the last point of the 7-day chart alone:
\* total = native + canonical + external of it, usd = total / 100,
\* eth = total / its fifth component.
C8_TotalFromLastWeekPoint ==
    \A r \in Ranges :
        Succeeded(r) =>
            LET lastWeekChart == getChartData(db["7d"], ethPrices, session).chart
                last == lastWeekChart[Len(lastWeekChart)]
                total == last[2] + last[3] + last[4]
            IN  /\ lastWeekChart # <<>>
                /\ Response(r).total.usd = Divide(total, 100)
                /\ Response(r).total.eth = Divide(total, last[5])

C8_Witness ==
    /\ Succeeded("30d")
    /\ Cardinality(TimestampsOf(db["7d"])) = 2
    /\ TimestampsOf(db["30d"]) # {}
    /\ LET lastWeekChart == getChartData(db["7d"], ethPrices, session).chart
           chart == Response("30d").chart
       IN  /\ lastWeekChart[1][2] + lastWeekChart[1][3]
                  # lastWeekChart[2][2] + lastWeekChart[2][3]
           /\ chart[Len(chart)] # lastWeekChart[2]

\* C9: two successful calls that differ only in the range, over the same
\* upstream values and prices, return the same total.
C9_TotalIndependentOfRange ==
    \A r1, r2 \in Ranges :
        (Succeeded(r1) /\ Succeeded(r2)) =>
            Response(r1).total = Response(r2).total

C9_Witness ==
    /\ Succeeded("7d")
    /\ Succeeded("30d")
    /\ Response("7d").chart # Response("30d").chart
    /\ Response("30d").chart # <<>>

\* C10: a price of 0 is rejected like an absent one, so every emitted point
\* has a nonzero fifth component and total.eth never divides by zero.
C10_ZeroPriceRejected ==
    \A r \in Ranges :
        /\ \A e \in BOOLEAN :
               LET c == getChartData(db[r], ethPrices, e)
               IN  /\ ZeroPriced(db[r]) => c.threw /\ IsPriceError(c.message)
                   /\ \A i \in DOMAIN c.chart : c.chart[i][5] # 0
        /\ Succeeded(r) =>
               /\ \A i \in DOMAIN Response(r).chart :
                      Response(r).chart[i][5] # 0
               /\ Response(r).total.eth[2] # 0

C10_Witness ==
    /\ ZeroPriced(db["30d"])
    /\ ~MissingPrice(db["30d"])
    /\ Answered("30d")
    /\ IsPriceError(Response("30d").message)
    /\ Succeeded("7d")

====
